---- MODULE Spec2Model ----
(***************************************************************************)
(* A model of examples/automation.py: the callbacks a spreadsheet host     *)
(* dispatches to the add-in (one menu item, three control macros, one      *)
(* worksheet function) and the update the worksheet function defers        *)
(* through pyxll.async_call.                                                *)
(*                                                                          *)
(* The host runs one callback at a time.  Every callback is modelled        *)
(* statement by statement: pc holds the source line about to execute.       *)
(* The host document is the sheet (cells), the controls placed on it, the   *)
(* current selection and Application.Caller.                                *)
(***************************************************************************)
EXTENDS Integers, Sequences, FiniteSets, TLC

(* ------------------------------------------------------------------ *)
(* Bounds of the model                                                  *)
(* ------------------------------------------------------------------ *)

\* callbacks the host starts on its own (menu, macros, recalculation)
MaxInv == 2
\* largest rows argument given to automation_example
MaxRows == 2
\* largest cols argument given to automation_example
MaxCols == 2
\* largest position of the scroll bar
MaxScroll == 1

(* ------------------------------------------------------------------ *)
(* Values held by cells                                                 *)
(* ------------------------------------------------------------------ *)

Num(n) == [t |-> "num", n |-> n, s |-> ""]
Str(s) == [t |-> "str", n |-> 0, s |-> s]
Blank == [t |-> "blank", n |-> 0, s |-> ""]
\* the worksheet formula =automation_example(rows, cols, value)
Formula == [t |-> "formula", n |-> 0, s |-> "=automation_example"]

\* the number button_output holds when the workbook is opened
ButtonStart == Num(5)

Hello == Str("Hello!")
CheckedText == Str("CHECKED!")
UncheckedText == Str("Click the check box")

\* the value check_box.Value is compared with
Checked == 1
\* CheckBox.Value: xlOn, xlOff, xlMixed
CheckBoxValues == {1, -4146, 2}

(* ------------------------------------------------------------------ *)
(* The sheet                                                            *)
(* ------------------------------------------------------------------ *)

\* cells that hold the worksheet function: row 1, columns 1..2
CallerCells == {<<1, 1>>, <<1, 2>>}
\* the window of the sheet that the callbacks can address from those
\* cells; the sheet's far edges lie beyond anything they reach
SheetRows == 1 + MaxRows
SheetCols == 1 + MaxCols
Sheet == (1..SheetRows) \X (1..SheetCols)

ColLetters == <<"A", "B", "C", "D", "E", "F", "G", "H">>

\* XLCell.address: the A1-style address string of a cell
Address(cell) == [col |-> ColLetters[cell[2]], row |-> cell[1]]
NoAddress == [col |-> "", row |-> 0]
Addresses == {Address(c) : c \in Sheet}

\* xl.Range(address): the single cell an address string names
RangeOfAddress(a) ==
    {c \in Sheet : ColLetters[c[2]] = a.col /\ c[1] = a.row}

\* the named ranges of the workbook and the cells they refer to
NameCell(name) ==
    CASE name = "button_output" -> <<2, 1>>
      [] name = "checkbox_output" -> <<2, 2>>
      [] name = "scrollbar_output" -> <<3, 1>>

CheckBoxes == {"cb1", "cb2"}
ScrollBars == {"sb1"}
Controls == CheckBoxes \cup ScrollBars
\* Application.Caller when the macro was not started by a control
NoCaller == ""

\* xlfCaller outside a calculation
NoCell == <<0, 0>>

\* what the user may have selected: a range of cells, or an object that
\* is no range (a shape, a chart) and has no Value
NoRange == [isRange |-> FALSE, cells |-> {}]
RangeObj(cs) == [isRange |-> TRUE, cells |-> cs]
Selections ==
    {RangeObj({<<1, 1>>}), RangeObj({<<2, 1>>, <<2, 2>>}), NoRange}

ArgValues == {Str("v")}

VARIABLES
    cells,      \* the sheet: cell -> value
    controls,   \* control -> its Value
    selection,  \* Application.Selection
    appCaller,  \* Application.Caller
    calcCell,   \* the cell whose formula is being calculated (xlfCaller)
    pc,         \* the source line the running callback is at, or "idle"
    ctx,        \* "none", "command", "calc" (calculation thread), "async"
    cur,        \* the callback that is running
    frame,      \* the locals of the running callback
    queue,      \* closures handed to pyxll.async_call, not yet run
    outcome,    \* of the running callback: "running", "ok", "raised"
    trace,      \* what the running callback has done to the host so far
    inv,        \* callbacks started so far
    scheduled,  \* async_call calls so far
    executed,   \* update_func executions finished so far
    btnDone,    \* button_example invocations that returned normally
    btnForeign  \* another callback has written button_output

vars ==
    <<cells, controls, selection, appCaller, calcCell, pc, ctx, cur, frame, queue,
      outcome, trace, inv, scheduled, executed, btnDone, btnForeign>>


(* ------------------------------------------------------------------ *)
(* Handles and frames                                                   *)
(* ------------------------------------------------------------------ *)

\* a Dispatch object for the application, stamped with the invocation
\* that obtained it
NoHandle == [minted |-> 0]

EmptyFrame ==
    [xl |-> NoHandle, rng |-> NoRange, ctl |-> NoCaller, num |-> Blank,
     address |-> NoAddress, rows |-> 0, cols |-> 0, value |-> Blank]

\* a variant of xl_app that keeps the handle of the first invocation in a
\* module-level variable and hands it out again
xl_app_cached == [minted |-> 1]

\* xl_app(): pyxll.get_active_object() wrapped by win32com.client.Dispatch,
\* resolved anew at every call
xl_app == [minted |-> inv]

\* the free variables of update_func, as captured when async_call is given it
Closure(f) ==
    [address |-> f.address, rows |-> f.rows, cols |-> f.cols, value |-> f.value]

ClosureVars == {"address", "rows", "cols", "value"}

\* range.Resize(i, j) as win32com evaluates it.  Resize is a property all
\* of whose arguments are optional: the attribute access reads it without
\* arguments (the range itself), and the call (i, j) then goes to the
\* range's default member, Item(i, j): the cell at row i, column j counted
\* from the range's top-left cell (row 1, column 1 is that cell).  This is
\* the reading of the source comment "get the cell below".
Item(cell, i, j) == <<cell[1] + i - 1, cell[2] + j - 1>>

\* xl.Range(cell1, cell2): the rectangle spanned by the two cells
Rect(c1, c2) ==
    LET r1 == IF c1[1] < c2[1] THEN c1[1] ELSE c2[1]
        r2 == IF c1[1] < c2[1] THEN c2[1] ELSE c1[1]
        k1 == IF c1[2] < c2[2] THEN c1[2] ELSE c2[2]
        k2 == IF c1[2] < c2[2] THEN c2[2] ELSE c1[2]
    IN (r1..r2) \X (k1..k2)

\* range.Value = v: every cell of the range takes v
SetValue(cs, v) == [c \in Sheet |-> IF c \in cs THEN v ELSE cells[c]]

\* the host lets a COM call modify the sheet unless the call is made from
\* a worksheet function that the calculation is still waiting for
HostAccepts(context) == context # "calc"

WriteEv(cs) == [ev |-> "write", cells |-> cs]
AlertEv == [ev |-> "alert", cells |-> {}]
AsyncEv == [ev |-> "async_call", cells |-> {}]

(* ------------------------------------------------------------------ *)
(* Initial state                                                        *)
(* ------------------------------------------------------------------ *)

Init ==
    /\ cells = [c \in Sheet |->
                  IF c \in CallerCells THEN Formula
                  ELSE IF c = NameCell("button_output") THEN ButtonStart
                  ELSE Blank]
    /\ controls = [k \in Controls |-> IF k \in CheckBoxes THEN -4146 ELSE 0]
    /\ selection = RangeObj({<<1, 1>>})
    /\ appCaller = NoCaller
    /\ calcCell = NoCell
    /\ pc = "idle"
    /\ ctx = "none"
    /\ cur = ""
    /\ frame = EmptyFrame
    /\ queue = <<>>
    /\ outcome = "ok"
    /\ trace = <<>>
    /\ inv = 0
    /\ scheduled = 0
    /\ executed = 0
    /\ btnDone = 0
    /\ btnForeign = FALSE

(* ------------------------------------------------------------------ *)
(* The host starts a callback                                           *)
(* ------------------------------------------------------------------ *)

\* the host enters callback name at line, in the given context
Enter(name, context, line) ==
    /\ pc = "idle"
    /\ pc' = line
    /\ cur' = name
    /\ ctx' = context
    /\ outcome' = "running"
    /\ trace' = <<>>
    /\ inv' = inv + 1

\* a variant in which the exception is caught and dropped: the callback
\* returns normally
Raise_Swallowed ==
    /\ pc' = "ret"
    /\ outcome' = "ok"

\* an exception leaves the callback: nothing catches it
Raise ==
    /\ pc' = "ret"
    /\ outcome' = "raised"

\* a statement that only assigns locals
Goto(line) ==
    /\ pc' = line
    /\ UNCHANGED outcome

\* range.Value = v through the automation interface, and the record of it
Write(cs, v) ==
    /\ HostAccepts(ctx)
    /\ cells' = SetValue(cs, v)
    /\ trace' = Append(trace, WriteEv(cs))
    /\ btnForeign' =
         (btnForeign \/ (cur # "button_example" /\ NameCell("button_output") \in cs))

\* what a statement that touches only locals leaves alone
hostSide == <<cells, controls, selection, appCaller, calcCell, queue>>
counters == <<inv, scheduled, executed, btnDone>>
NoWrite == UNCHANGED <<hostSide, counters, btnForeign, ctx, cur, trace>>
AfterWrite ==
    UNCHANGED <<controls, selection, appCaller, calcCell, queue, counters, ctx, cur>>

(* ------------------------------------------------------------------ *)
(* win32com_menu_test                                                   *)
(* ------------------------------------------------------------------ *)

\* the user selects something and picks the menu item
MenuClick ==
    \E sel \in Selections :
        /\ inv < MaxInv
        /\ Enter("win32com_menu_test", "command", "menu_96")
        /\ selection' = sel
        /\ UNCHANGED <<cells, controls, appCaller, calcCell, queue, frame,
                       scheduled, executed, btnDone, btnForeign>>

\* selection = xl_app().Selection
Menu_96 ==
    /\ pc = "menu_96"
    /\ \E ok \in BOOLEAN :
        IF ok
        THEN /\ frame' = [frame EXCEPT !.xl = xl_app, !.rng = selection]
             /\ Goto("menu_97")
        ELSE /\ Raise
             /\ UNCHANGED frame
    /\ NoWrite

\* a variant of line 97 that ignores a failed write and goes on to the alert
Menu_97_AlertAnyway ==
    /\ pc = "menu_97"
    /\ IF frame.rng.isRange
       THEN Write(frame.rng.cells, Hello)
       ELSE UNCHANGED <<cells, trace, btnForeign>>
    /\ Goto("menu_98")
    /\ UNCHANGED frame
    /\ AfterWrite

\* selection.Value = "Hello!"
Menu_97 ==
    /\ pc = "menu_97"
    /\ IF frame.rng.isRange
       THEN /\ Write(frame.rng.cells, Hello)
            /\ Goto("menu_98")
       ELSE /\ Raise
            /\ UNCHANGED <<cells, trace, btnForeign>>
    /\ UNCHANGED frame
    /\ AfterWrite

\* pyxll.xlcAlert(...)
Menu_98 ==
    /\ pc = "menu_98"
    /\ trace' = Append(trace, AlertEv)
    /\ pc' = "ret"
    /\ outcome' = "ok"
    /\ UNCHANGED <<hostSide, counters, btnForeign, ctx, cur, frame>>

(* ------------------------------------------------------------------ *)
(* Statements shared by the callbacks                                   *)
(* ------------------------------------------------------------------ *)

\* xl = xl_app(), at line `at`, going on to line `to`
GetApp(at, to) ==
    /\ pc = at
    /\ \E ok \in BOOLEAN :
        IF ok
        THEN /\ frame' = [frame EXCEPT !.xl = xl_app]
             /\ Goto(to)
        ELSE /\ Raise
             /\ UNCHANGED frame
    /\ NoWrite

\* a variant that writes button_output whatever name it is given
WriteName_CopyPaste(at, name, v) ==
    /\ pc = at
    /\ \E found \in BOOLEAN :
        IF found
        THEN /\ Write({NameCell("button_output")}, v)
             /\ pc' = "ret"
             /\ outcome' = "ok"
        ELSE /\ Raise
             /\ UNCHANGED <<cells, trace, btnForeign>>
    /\ UNCHANGED frame
    /\ AfterWrite

\* xl.Range(name).Value = v at line `at`, the last statement of a macro;
\* the workbook may or may not define the name
WriteName(at, name, v) ==
    /\ pc = at
    /\ \E found \in BOOLEAN :
        IF found
        THEN /\ Write({NameCell(name)}, v)
             /\ pc' = "ret"
             /\ outcome' = "ok"
        ELSE /\ Raise
             /\ UNCHANGED <<cells, trace, btnForeign>>
    /\ UNCHANGED frame
    /\ AfterWrite

(* ------------------------------------------------------------------ *)
(* button_example                                                       *)
(* ------------------------------------------------------------------ *)

ButtonClick ==
    /\ inv < MaxInv
    /\ Enter("button_example", "command", "btn_110")
    /\ UNCHANGED <<hostSide, frame, scheduled, executed, btnDone,
                   btnForeign>>

\* xl = xl_app()
Btn_110 == GetApp("btn_110", "btn_111")

\* range = xl.Range("button_output")
Btn_111 ==
    /\ pc = "btn_111"
    /\ \E found \in BOOLEAN :
        IF found
        THEN /\ frame' = [frame EXCEPT
                            !.rng = RangeObj({NameCell("button_output")})]
             /\ Goto("btn_112")
        ELSE /\ Raise
             /\ UNCHANGED frame
    /\ NoWrite

\* a variant that adds 1 to the number the workbook started with, not to
\* the number the cell holds now
Incremented_Stale(v) == Num(ButtonStart.n + 1)

\* range.Value + 1
Incremented(v) == Num(v.n + 1)

\* the right-hand side of line 112: range.Value + 1, a TypeError unless
\* the cell holds a number
Btn_112 ==
    /\ pc = "btn_112"
    /\ LET v == cells[CHOOSE c \in frame.rng.cells : TRUE]
       IN IF v.t = "num"
          THEN /\ frame' = [frame EXCEPT !.num = Incremented(v)]
               /\ Goto("btn_112_put")
          ELSE /\ Raise
               /\ UNCHANGED frame
    /\ NoWrite

\* range.Value = <the sum>
Btn_112_put ==
    /\ pc = "btn_112_put"
    /\ Write(frame.rng.cells, frame.num)
    /\ pc' = "ret"
    /\ outcome' = "ok"
    /\ UNCHANGED frame
    /\ AfterWrite

(* ------------------------------------------------------------------ *)
(* checkbox_example                                                     *)
(* ------------------------------------------------------------------ *)

\* a control is clicked (a check box takes its new value first), or the
\* macro is started by something that is no control
CheckboxClick ==
    \E k \in CheckBoxes \cup {NoCaller}, v \in CheckBoxValues :
        /\ inv < MaxInv
        /\ Enter("checkbox_example", "command", "cb_116")
        /\ appCaller' = k
        /\ controls' = IF k \in CheckBoxes
                       THEN [controls EXCEPT ![k] = v]
                       ELSE controls
        /\ UNCHANGED <<cells, selection, calcCell, queue, frame, scheduled,
                       executed, btnDone, btnForeign>>

\* xl = xl_app()
Cb_116 == GetApp("cb_116", "cb_117")

\* check_box = xl.ActiveSheet.CheckBoxes(xl.Caller)
Cb_117 ==
    /\ pc = "cb_117"
    /\ IF appCaller \in CheckBoxes
       THEN /\ frame' = [frame EXCEPT !.ctl = appCaller]
            /\ Goto("cb_118")
       ELSE /\ Raise
            /\ UNCHANGED frame
    /\ NoWrite

\* a variant that tests the value for truth: if check_box.Value:
IsChecked_Truthy(v) == v # 0

\* check_box.Value == 1
IsChecked(v) == v = Checked

\* if check_box.Value == 1: ... else: ...
Cb_118 ==
    /\ pc = "cb_118"
    /\ IF IsChecked(controls[frame.ctl])
       THEN Goto("cb_119")
       ELSE Goto("cb_121")
    /\ UNCHANGED frame
    /\ NoWrite

\* xl.Range("checkbox_output").Value = 'CHECKED!'
Cb_119 == WriteName("cb_119", "checkbox_output", CheckedText)

\* xl.Range("checkbox_output").Value = "Click the check box"
Cb_121 == WriteName("cb_121", "checkbox_output", UncheckedText)

(* ------------------------------------------------------------------ *)
(* scrollbar_example                                                    *)
(* ------------------------------------------------------------------ *)

ScrollbarChange ==
    \E k \in ScrollBars \cup {NoCaller}, v \in 0..MaxScroll :
        /\ inv < MaxInv
        /\ Enter("scrollbar_example", "command", "sb_125")
        /\ appCaller' = k
        /\ controls' = IF k \in ScrollBars
                       THEN [controls EXCEPT ![k] = v]
                       ELSE controls
        /\ UNCHANGED <<cells, selection, calcCell, queue, frame, scheduled,
                       executed, btnDone, btnForeign>>

\* xl = xl_app()
Sb_125 == GetApp("sb_125", "sb_126")

\* caller = xl.Caller
Sb_126 ==
    /\ pc = "sb_126"
    /\ Goto("sb_127")
    /\ UNCHANGED frame
    /\ NoWrite

\* scrollbar = xl.ActiveSheet.ScrollBars(xl.Caller)
Sb_127 ==
    /\ pc = "sb_127"
    /\ IF appCaller \in ScrollBars
       THEN /\ frame' = [frame EXCEPT !.ctl = appCaller]
            /\ Goto("sb_128")
       ELSE /\ Raise
            /\ UNCHANGED frame
    /\ NoWrite

\* scrollbar.Value
ScrollValue(k) == Num(controls[k])

\* xl.Range("scrollbar_output").Value = scrollbar.Value
Sb_128 == WriteName("sb_128", "scrollbar_output", ScrollValue(frame.ctl))

(* ------------------------------------------------------------------ *)
(* automation_example and its deferred update_func                      *)
(* ------------------------------------------------------------------ *)

\* the host recalculates a cell that holds the worksheet function
Recalculate ==
    \E cell \in CallerCells, rows \in 1..MaxRows, cols \in 1..MaxCols,
       value \in ArgValues :
        /\ inv < MaxInv
        /\ cells[cell] = Formula
        /\ Enter("automation_example", "calc", "auto_157")
        /\ calcCell' = cell
        /\ frame' = [EmptyFrame EXCEPT
                       !.rows = rows, !.cols = cols, !.value = value]
        /\ UNCHANGED <<cells, controls, selection, appCaller, queue,
                       scheduled, executed, btnDone, btnForeign>>

\* a variant that asks the automation interface for the calling cell
Auto_157_ViaCom ==
    /\ pc = "auto_157"
    /\ frame' = [frame EXCEPT !.xl = xl_app, !.address = Address(calcCell)]
    /\ Goto("auto_173")
    /\ NoWrite

\* caller = pyxll.xlfCaller(); address = caller.address
Auto_157 ==
    /\ pc = "auto_157"
    /\ frame' = [frame EXCEPT !.address = Address(calcCell)]
    /\ Goto("auto_173")
    /\ NoWrite

\* a variant that calls update_func() itself, on the calculation thread
Auto_173_Sync ==
    /\ pc = "auto_173"
    /\ Goto("upd_163")
    /\ NoWrite
    /\ UNCHANGED frame

\* pyxll.async_call(update_func): the closure is queued, nothing waits
Auto_173 ==
    /\ pc = "auto_173"
    /\ queue' = Append(queue, Closure(frame))
    /\ scheduled' = scheduled + 1
    /\ trace' = Append(trace, AsyncEv)
    /\ Goto("auto_175")
    /\ UNCHANGED <<cells, controls, selection, appCaller, calcCell, frame,
                   inv, executed, btnDone, btnForeign, ctx, cur>>

\* return address
Auto_175 ==
    /\ pc = "auto_175"
    /\ pc' = "ret"
    /\ outcome' = "ok"
    /\ UNCHANGED frame
    /\ NoWrite

\* the dispatcher of async_call runs the oldest queued closure once the
\* host is running no callback
AsyncDispatch ==
    /\ queue # <<>>
    /\ Enter("update_func", "async", "upd_163")
    /\ LET clo == Head(queue)
       IN frame' = [EmptyFrame EXCEPT
                      !.address = clo.address, !.rows = clo.rows,
                      !.cols = clo.cols, !.value = clo.value]
    /\ queue' = Tail(queue)
    /\ UNCHANGED <<cells, controls, selection, appCaller, calcCell,
                   scheduled, executed, btnDone, btnForeign>>

\* xl = xl_app()
Upd_163 == GetApp("upd_163", "upd_164")

\* range = xl.Range(address); the address may no longer resolve
Upd_164 ==
    /\ pc = "upd_164"
    /\ \E found \in BOOLEAN :
        IF found /\ RangeOfAddress(frame.address) # {}
        THEN /\ frame' = [frame EXCEPT
                            !.rng = RangeObj(RangeOfAddress(frame.address))]
             /\ Goto("upd_167")
        ELSE /\ Raise
             /\ UNCHANGED frame
    /\ NoWrite

\* the two corners line 167 hands to xl.Range
Corner1(cell) == Item(cell, 2, 1)
Corner2(cell, rows, cols) == Item(cell, rows + 1, cols)

\* a variant in which Resize(i, j) resizes the range to i rows and j
\* columns from its top-left cell, as the method of that name does
UpdateRange_Resize(cell, rows, cols) ==
    Rect(cell, Item(cell, rows + 1, cols))

\* xl.Range(range.Resize(2, 1), range.Resize(rows+1, cols))
UpdateRange(cell, rows, cols) ==
    Rect(Corner1(cell), Corner2(cell, rows, cols))

\* line 167; a corner off the sheet (column 0) is an error of the host
Upd_167 ==
    /\ pc = "upd_167"
    /\ LET cell == CHOOSE c \in frame.rng.cells : TRUE
       IN IF /\ Corner1(cell) \in Sheet
             /\ Corner2(cell, frame.rows, frame.cols) \in Sheet
          THEN /\ frame' = [frame EXCEPT
                              !.rng = RangeObj(UpdateRange(cell, frame.rows,
                                                           frame.cols))]
               /\ Goto("upd_170")
          ELSE /\ Raise
               /\ UNCHANGED frame
    /\ NoWrite

\* range.Value = value
Upd_170 ==
    /\ pc = "upd_170"
    /\ Write(frame.rng.cells, frame.value)
    /\ pc' = "ret"
    /\ outcome' = "ok"
    /\ UNCHANGED frame
    /\ AfterWrite

(* ------------------------------------------------------------------ *)
(* The callback returns to the host                                     *)
(* ------------------------------------------------------------------ *)

\* the locals die with the frame; an exception goes to the host's own
\* error reporting
Return ==
    /\ pc = "ret"
    /\ pc' = "idle"
    /\ ctx' = "none"
    /\ cur' = ""
    /\ frame' = EmptyFrame
    /\ outcome' = "ok"
    /\ trace' = <<>>
    /\ executed' = IF cur = "update_func" THEN executed + 1 ELSE executed
    /\ btnDone' = IF cur = "button_example" /\ outcome = "ok"
                  THEN btnDone + 1 ELSE btnDone
    /\ appCaller' = NoCaller
    /\ calcCell' = NoCell
    /\ UNCHANGED <<cells, controls, selection, queue, inv, scheduled,
                   btnForeign>>

Next ==
    \/ MenuClick \/ Menu_96 \/ Menu_97 \/ Menu_98
    \/ ButtonClick \/ Btn_110 \/ Btn_111 \/ Btn_112 \/ Btn_112_put
    \/ CheckboxClick \/ Cb_116 \/ Cb_117 \/ Cb_118 \/ Cb_119 \/ Cb_121
    \/ ScrollbarChange \/ Sb_125 \/ Sb_126 \/ Sb_127 \/ Sb_128
    \/ Recalculate \/ Auto_157 \/ Auto_173 \/ Auto_175
    \/ AsyncDispatch \/ Upd_163 \/ Upd_164 \/ Upd_167 \/ Upd_170
    \/ Return

Spec == Init /\ [][Next]_vars

\* The worksheet function, its deferred update and the dispatcher, with
\* a command (the menu item) competing with the dispatcher for the host.
CalcNext ==
    \/ Recalculate \/ Auto_157 \/ Auto_173 \/ Auto_175
    \/ AsyncDispatch \/ Upd_163 \/ Upd_164 \/ Upd_167 \/ Upd_170
    \/ MenuClick \/ Menu_96 \/ Menu_97 \/ Menu_98
    \/ Return

\* a statement of a started callback
Statement ==
    \/ Auto_157 \/ Auto_173 \/ Auto_175
    \/ Upd_163 \/ Upd_164 \/ Upd_167 \/ Upd_170
    \/ Menu_96 \/ Menu_97 \/ Menu_98
    \/ Return

\* the interpreter runs a started callback on, and the dispatcher does not
\* leave a queued closure behind for ever; the user owes the host nothing
FairSpec ==
    Init /\ [][CalcNext]_vars /\ WF_vars(Statement) /\ SF_vars(AsyncDispatch)

(* ------------------------------------------------------------------ *)
(* Vocabulary of the properties                                         *)
(* ------------------------------------------------------------------ *)

Commands ==
    {"win32com_menu_test", "button_example", "checkbox_example",
     "scrollbar_example"}

UpdateLines == {"upd_163", "upd_164", "upd_167", "upd_170"}

Writes(tr) == {i \in 1..Len(tr) : tr[i].ev = "write"}
Alerts(tr) == {i \in 1..Len(tr) : tr[i].ev = "alert"}
AsyncCalls(tr) == {i \in 1..Len(tr) : tr[i].ev = "async_call"}

\* the rows x cols cells below a cell: its corner is the cell directly
\* under it, in the same column
BlockBelow(cell, rows, cols) ==
    {<<cell[1] + i, cell[2] + j - 1>> : i \in 1..rows, j \in 1..cols}

\* the cell an address string was taken from
CellAt(a) == CHOOSE c \in Sheet : Address(c) = a

(* ------------------------------------------------------------------ *)
(* C1                                                                   *)
(* ------------------------------------------------------------------ *)

\* C1: nothing is written to the document on the calculation thread.
\* While automation_example executes (ctx = "calc") it holds no handle of
\* the automation interface, is at none of update_func's lines and has
\* written nothing; update_func runs only as a call dispatched by
\* async_call (ctx = "async"); every other write is made by one of the
\* four command callbacks.
C1_NoWriteOnCalcThread ==
    /\ ctx = "calc" =>
         /\ cur = "automation_example"
         /\ pc \notin UpdateLines
         /\ frame.xl = NoHandle
         /\ frame.rng = NoRange
         /\ Writes(trace) = {}
    /\ pc \in UpdateLines => ctx = "async" /\ cur = "update_func"
    /\ Writes(trace) # {} =>
         \/ ctx = "async" /\ cur = "update_func"
         \/ ctx = "command" /\ cur \in Commands

\* the deferred update has written, in the dispatcher's context
C1_Witness ==
    /\ cur = "update_func"
    /\ ctx = "async"
    /\ pc = "ret"
    /\ Writes(trace) # {}

(* ------------------------------------------------------------------ *)
(* C2                                                                   *)
(* ------------------------------------------------------------------ *)

\* C2: when update_func's write (line 170) runs, for rows >= 1 and
\* cols >= 1, exactly the rows x cols cells below the calling cell take
\* value; the calling cell and every cell outside the block keep what
\* they held.
C2_BlockBelowCaller ==
    [][(pc = "upd_170" /\ pc' = "ret" /\ outcome' = "ok"
        /\ frame.rows >= 1 /\ frame.cols >= 1) =>
         LET caller == CellAt(frame.address)
             block == BlockBelow(caller, frame.rows, frame.cols)
         IN /\ Cardinality(block) = frame.rows * frame.cols
            /\ caller \notin block
            /\ block \subseteq Sheet
            /\ \A c \in Sheet :
                 cells'[c] = IF c \in block THEN frame.value ELSE cells[c]
            /\ cells'[caller] = cells[caller]]_vars

\* a 2 x 2 update of the worksheet function in B1 has been written
C2_Witness ==
    /\ cur = "update_func"
    /\ pc = "ret"
    /\ outcome = "ok"
    /\ frame.rows = 2
    /\ frame.cols = 2
    /\ frame.address = Address(<<1, 2>>)
    /\ \A c \in BlockBelow(<<1, 2>>, 2, 2) : cells[c] = frame.value
    /\ cells[<<1, 2>>] = Formula

(* ------------------------------------------------------------------ *)
(* C3                                                                   *)
(* ------------------------------------------------------------------ *)

\* C3: a failure of the automation layer leaves the callback as an
\* exception: a callback that raised has written nothing and shown no
\* alert, and a command or update_func that returned normally has made its
\* write (no failure was swallowed on the way).
C3_FailuresPropagate ==
    /\ outcome = "raised" =>
         /\ pc = "ret"
         /\ trace = <<>>
    /\ (pc = "ret" /\ outcome = "ok" /\ cur \in Commands \cup {"update_func"}) =>
         Writes(trace) # {}
    /\ (pc = "ret" /\ Alerts(trace) # {}) => outcome = "ok"

\* the menu callback has raised: the selection is no range
C3_Witness ==
    /\ cur = "win32com_menu_test"
    /\ pc = "ret"
    /\ outcome = "raised"
    /\ frame.xl # NoHandle
    /\ ~selection.isRange

(* ------------------------------------------------------------------ *)
(* C4                                                                   *)
(* ------------------------------------------------------------------ *)

\* C4: no handle outlives the invocation that obtained it.  Between
\* callbacks no local is alive; a handle a callback holds was obtained by
\* xl_app() in that very invocation; every line after the xl_app() call
\* of a command or of update_func holds such a handle; a queued closure
\* carries the address string, rows, cols and value and nothing else.
C4_HandlesAreShortLived ==
    /\ pc = "idle" => frame = EmptyFrame
    /\ frame.xl # NoHandle => frame.xl.minted = inv
    /\ (pc \in {"menu_97", "menu_98", "btn_111", "btn_112", "btn_112_put",
                "cb_117", "cb_118", "cb_119", "cb_121", "sb_126", "sb_127",
                "sb_128", "upd_164", "upd_167", "upd_170"}) =>
         frame.xl # NoHandle
    /\ ctx = "calc" => frame.xl = NoHandle /\ frame.rng = NoRange
    /\ \A i \in 1..Len(queue) :
         /\ DOMAIN queue[i] = ClosureVars
         /\ queue[i].address \in Addresses

\* update_func, in a later invocation than the one that queued it, is
\* about to write through a handle of its own
C4_Witness ==
    /\ pc = "upd_170"
    /\ inv = 2
    /\ frame.xl = [minted |-> 2]

(* ------------------------------------------------------------------ *)
(* C5                                                                   *)
(* ------------------------------------------------------------------ *)

\* C5: automation_example never waits for its update.  Every invocation
\* reaches its return having called async_call exactly once, with the
\* closure it queued still waiting behind the older ones; every closure
\* handed to async_call is waiting, running or has been executed once;
\* the queue only grows at its end and shrinks at its head, and
\* update_func starts only when the host runs no callback; no statement
\* of a started callback ever blocks; and under fair scheduling a waiting
\* closure is followed by an update_func that has run to its return.
C5_NoDeadlock ==
    /\ [](executed + Len(queue) + (IF cur = "update_func" THEN 1 ELSE 0)
            = scheduled)
    /\ []((pc = "ret" /\ cur = "automation_example") =>
            /\ outcome = "ok"
            /\ Cardinality(AsyncCalls(trace)) = 1
            /\ queue # <<>>
            /\ queue[Len(queue)] = Closure(frame))
    /\ [][/\ (cur' = "update_func" /\ cur # "update_func") =>
               /\ pc = "idle"
               /\ queue # <<>>
               /\ queue' = Tail(queue)
               /\ Closure(frame') = Head(queue)
          /\ Len(queue') < Len(queue) => queue' = Tail(queue)
          /\ Len(queue') = Len(queue) => queue' = queue
          /\ Len(queue') > Len(queue) =>
               queue' = Append(queue, queue'[Len(queue')])]_vars
    /\ [](pc # "idle" => ENABLED Statement)
    /\ (queue # <<>>) ~> (cur = "update_func" /\ pc = "ret")

\* the worksheet function has returned twice and both updates are still
\* waiting for the host
C5_Witness ==
    /\ pc = "idle"
    /\ Len(queue) = 2
    /\ scheduled = 2
    /\ executed = 0

(* ------------------------------------------------------------------ *)
(* C6                                                                   *)
(* ------------------------------------------------------------------ *)

\* C6: between callbacks, as long as no other callback has written
\* button_output, the cell holds its starting number plus the number of
\* button_example invocations that have returned normally.
C6_NoLostIncrement ==
    (pc = "idle" /\ ~btnForeign) =>
        cells[NameCell("button_output")] = Num(ButtonStart.n + btnDone)

\* two increments are in
C6_Witness ==
    /\ pc = "idle"
    /\ ~btnForeign
    /\ btnDone = 2
    /\ cells[NameCell("button_output")] = Num(ButtonStart.n + 2)

(* ------------------------------------------------------------------ *)
(* C7                                                                   *)
(* ------------------------------------------------------------------ *)

\* the cells the running callback may write
Target ==
    CASE cur = "win32com_menu_test" -> selection.cells
      [] cur = "button_example" -> {NameCell("button_output")}
      [] cur = "checkbox_example" -> {NameCell("checkbox_output")}
      [] cur = "scrollbar_example" -> {NameCell("scrollbar_output")}
      [] cur = "update_func" ->
            BlockBelow(CellAt(frame.address), frame.rows, frame.cols)
      [] OTHER -> {}

\* C7: a callback assigns at most one host property, and only its own
\* target: a step changes no cell outside the target of the running
\* callback, a running callback changes no control, and scrollbar_example
\* leaves the calling scroll bar's value in scrollbar_output.
C7_OneWriteOwnTarget ==
    /\ [](Cardinality(Writes(trace)) <= 1)
    /\ [](\A i \in Writes(trace) : trace[i].cells \subseteq Target)
    /\ []((pc = "ret" /\ outcome = "ok" /\ cur = "scrollbar_example") =>
            cells[NameCell("scrollbar_output")] = Num(controls[appCaller]))
    /\ [][/\ \A c \in Sheet : cells'[c] # cells[c] => c \in Target
          /\ pc # "idle" => controls' = controls /\ selection' = selection]_vars

\* scrollbar_example has written the scroll bar's position 1
C7_Witness ==
    /\ cur = "scrollbar_example"
    /\ pc = "ret"
    /\ outcome = "ok"
    /\ cells[NameCell("scrollbar_output")] = Num(1)
    /\ Cardinality(Writes(trace)) = 1

(* ------------------------------------------------------------------ *)
(* C8                                                                   *)
(* ------------------------------------------------------------------ *)

\* C8: when checkbox_example returns normally, checkbox_output holds
\* 'CHECKED!' if the calling check box's value is 1 and 'Click the check
\* box' for every other value, whatever the other check box holds and
\* whatever the cell held before.
C8_CheckboxText ==
    (pc = "ret" /\ outcome = "ok" /\ cur = "checkbox_example") =>
        /\ appCaller \in CheckBoxes
        /\ cells[NameCell("checkbox_output")] =
             IF controls[appCaller] = 1 THEN CheckedText ELSE UncheckedText

\* cb2 is in the mixed state and called, cb1 is checked, and the cell that
\* held 'CHECKED!' now holds the other text
C8_Witness ==
    /\ pc = "ret"
    /\ outcome = "ok"
    /\ cur = "checkbox_example"
    /\ appCaller = "cb2"
    /\ controls["cb2"] = 2
    /\ controls["cb1"] = 1
    /\ cells[NameCell("checkbox_output")] = UncheckedText

(* ------------------------------------------------------------------ *)
(* C9                                                                   *)
(* ------------------------------------------------------------------ *)

\* C9: in win32com_menu_test the alert comes after the write: whenever
\* the alert is about to be shown or has been shown, the write to the
\* selection is the event before it and every cell of the selection holds
\* 'Hello!'.
C9_AlertAfterWrite ==
    /\ pc = "menu_98" =>
         /\ Len(trace) = 1
         /\ trace[1] = WriteEv(selection.cells)
    /\ \A i \in Alerts(trace) :
         /\ i = 2
         /\ trace[1] = WriteEv(selection.cells)
    /\ (pc = "menu_98" \/ Alerts(trace) # {}) =>
         /\ selection.isRange
         /\ \A c \in selection.cells : cells[c] = Hello

\* the alert has been shown over a two-cell selection
C9_Witness ==
    /\ cur = "win32com_menu_test"
    /\ Alerts(trace) = {2}
    /\ selection = RangeObj({<<2, 1>>, <<2, 2>>})
    /\ cells[<<2, 1>>] = Hello

====
